---- MODULE Spec2Model ----
(***************************************************************************)
(* State machine of the debate-game session server (src/server.js, the     *)
(* server variant with reconnection support, lines 550-1280).              *)
(*                                                                         *)
(* lobbies, gameStates and disconnectedPlayers are the three Maps of the   *)
(* server.  gameStates maps a lobby code to a gameState OBJECT; objects    *)
(* live in heap, because a repeated start-game replaces the object in the  *)
(* Map while closures (interval ticks, the scoreboard timeout) keep the    *)
(* old one.  timeouts is the bag of pending setTimeout callbacks.  An      *)
(* object's timerInterval is its live setInterval (callback "none" when    *)
(* there is none or it has been cleared).                                  *)
(*                                                                         *)
(* Time is counted in seconds.  A pending timeout holds the seconds until  *)
(* it is due and a live interval the seconds until the tick that brings    *)
(* the timer to 0; Advance lets time pass up to the next of these, and a   *)
(* callback runs when nothing is left of its delay.  Messages of clients   *)
(* arrive before or after any callback.  A disconnect record holds its age *)
(* in seconds, which is  now - timestamp  of the reaper.                   *)
(* Broadcasts (io.to(code).emit) and syncGameStateToPlayer write no server *)
(* state; of the broadcasts the history hist records the game-ended count  *)
(* and the phase of the last game-phase-update, the others are left out.   *)
(*                                                                         *)
(* The behaviours are explored in scenarios, each a specification over the *)
(* same actions: SpecLobby (lobby life cycle, connections and the reaper,  *)
(* nobody votes), SpecRound (one round between two players, with repeated  *)
(* votes), SpecRestart (a second start-game or a restart-game during the   *)
(* round), SpecReconnect (a guest drops out and comes back during the      *)
(* round), SpecLateJoin (a third person joins the running round),          *)
(* SpecTwoLobbies (two lobbies of the same usernames, nobody votes),       *)
(* SpecGame (a whole game of skipped rounds, with repeated votes, on topic *)
(* lists of every length), SpecTeardown (such a game, left between two     *)
(* rounds), SpecScore (calculateResults on every tally and revote map),    *)
(* SpecVote (votes and revotes arriving at any time), SpecJoinScore (a     *)
(* scored round with a late joiner and a restart) and SpecLive (a whole    *)
(* game with weak fairness of time, timers and delayed callbacks).         *)
(***************************************************************************)
EXTENDS Integers, Sequences, FiniteSets, Bags, TLC

\* ---- bounds of the model
NumUsers == 2
NumScorers == 3
NumTopics == 2
MaxTopics == 4
MaxLobbies == 2
MaxStarts == 2
MaxCopies == 2
ActiveRounds == 1

\* ---- program constants
MaxRounds == 5
ReapTimeout == 300
SweepSeconds == 60
VotingSeconds == 20
SoloSeconds == 60
DiscussionSeconds == 180
RevotingSeconds == 20
SettleDelay == 1
StartDelay == 2
SkipMessageDelay == 3
SkipScoreboardDelay == 5
VoteResultsDelay == 5
RoundResultsDelay == 8
ScoreboardDelay == 5
WaitingDelay == 3

UserNames == <<"ann", "bob", "cat", "dan", "eve">>
Users == {UserNames[i] : i \in 1..NumUsers}
Codes == 1..MaxLobbies
NoTopic == 0
NoSpeaker == ""

\* values a client can put in the vote field: the two sides, an explicit
\* abstain, and a string that is none of the three counters
VoteValues == {"agree", "disagree", "abstain", "maybe"}

VARIABLES lobbies, gameStates, heap, hist, disconnectedPlayers, sockets,
          timeouts, usedCodes, starts, reaper, debateTopics

vars == <<lobbies, gameStates, heap, hist, disconnectedPlayers, sockets,
          timeouts, usedCodes, starts, reaper,
         debateTopics>>

\* ---- Map and array helpers
EmptyMap == [x \in {} |-> 0]
Put(f, k, v) == [x \in (DOMAIN f) \cup {k} |-> IF x = k THEN v ELSE f[x]]
Del(f, k) == [x \in (DOMAIN f) \ {k} |-> f[x]]

Usernames(parts) == {parts[i].username : i \in 1..Len(parts)}
Without(parts, u) == SelectSeq(parts, LAMBDA p : p.username # u)
SetConnected(parts, u, b) ==
    [i \in 1..Len(parts) |->
        IF parts[i].username = u THEN [parts[i] EXCEPT !.connected = b] ELSE parts[i]]
ConnectedNames(parts) == {parts[i].username : i \in {j \in 1..Len(parts) : parts[j].connected}}
Elems(s) == {s[i] : i \in 1..Len(s)}

NoTimer == [callback |-> "none", code |-> 0, due |-> 0]
ZeroTally == [agree |-> 0, disagree |-> 0, abstain |-> 0]

\* gameState object literal of start-game
NewGameState(parts) ==
    [phase |-> "voting", roundNumber |-> 1, currentTopic |-> NoTopic,
     votes |-> EmptyMap, revotes |-> EmptyMap,
     scores |-> [u \in Usernames(parts) |-> 0],
     usedTopics |-> <<>>, usedSpeakers |-> <<>>,
     timer |-> VotingSeconds, timerInterval |-> NoTimer,
     initialVoteResults |-> ZeroTally, finalVoteResults |-> ZeroTally,
     currentSpeaker |-> NoSpeaker, speakerPosition |-> ""]

\* history kept per gameState object: executions of processVoteResults since
\* the phase last became voting, executions of calculateResults since the
\* phase last became revoting, the scores at that entry into revoting,
\* whether restart-game ran and startVotingPhase has not run since, the
\* number of game-ended broadcasts, the usernames of the roster when the
\* game was started or last restarted, and the phase that the last
\* game-phase-update announced with the phase stored at that moment
NewHist(scores) ==
    [pvr |-> 0, calc |-> 0, base |-> scores, restarted |-> FALSE, ended |-> 0,
     atStart |-> DOMAIN scores, announced |-> [phase |-> "", stored |-> ""]]

\* `votes[username] || 'abstain'`
Truthy(v) == v # ""
VoteOr(votes, u) == IF u \in DOMAIN votes /\ Truthy(votes[u]) THEN votes[u] ELSE "abstain"

\* the counting loop of processVoteResults and calculateResults; a value
\* that is none of the three keys increments no counter of the three
Tally(parts, votes) ==
    LET n(v) == Cardinality({i \in 1..Len(parts) :
                    parts[i].connected /\ VoteOr(votes, parts[i].username) = v})
    IN [agree |-> n("agree"), disagree |-> n("disagree"), abstain |-> n("abstain")]

\* ---- the part of the state the phase functions write
World == [heap |-> heap, timeouts |-> timeouts, hist |-> hist]
Apply(w) == heap' = w.heap /\ timeouts' = w.timeouts /\ hist' = w.hist

Closure(fn, code, obj, delay) == [fn |-> fn, code |-> code, obj |-> obj, due |-> delay]
setTimeout(w, cl) == [w EXCEPT !.timeouts = @ (+) SetToBag({cl})]
Exists(code) == code \in DOMAIN gameStates /\ code \in DOMAIN lobbies

\* io.to(code).emit('game-phase-update', {phase}) for gameState object o
emitPhaseUpdate(w, o, phase) ==
    [w EXCEPT !.hist[o].announced = [phase |-> phase, stored |-> w.heap[o].phase]]

startTimer(w, code, seconds, cb) ==
    IF code \notin DOMAIN gameStates THEN w
    ELSE LET o == gameStates[code]
         IN [w EXCEPT !.heap[o].timer = seconds,
                      !.heap[o].timerInterval =
                          [callback |-> cb, code |-> code, due |-> seconds]]

endGame(w, code) ==
    IF code \notin DOMAIN gameStates THEN w
    ELSE [w EXCEPT !.heap[gameStates[code]].timerInterval = NoTimer,
                   !.hist[gameStates[code]].ended = @ + 1]

AvailableTopics(g) == {t \in debateTopics : t \notin Elems(g.usedTopics)}

startVotingPhase(w, code, topic) ==
    IF ~Exists(code) THEN w
    ELSE LET o == gameStates[code]
             g == w.heap[o]
         IN IF AvailableTopics(g) = {} THEN endGame(w, code)
            ELSE startTimer(
                   emitPhaseUpdate(
                     [w EXCEPT !.heap[o] = [g EXCEPT !.currentTopic = topic,
                                                     !.usedTopics = Append(@, topic),
                                                     !.phase = "voting",
                                                     !.votes = EmptyMap,
                                                     !.timer = VotingSeconds,
                                                     !.timerInterval = NoTimer],
                               !.hist[o].pvr = 0,
                               !.hist[o].restarted = FALSE],
                     o, "voting"),
                   code, VotingSeconds, "processVoteResults")

processVoteResults(w, code) ==
    IF ~Exists(code) THEN w
    ELSE LET o == gameStates[code]
             g == w.heap[o]
             voteResults == Tally(lobbies[code].participants, g.votes)
             w1 == [w EXCEPT !.heap[o].initialVoteResults = voteResults,
                             !.hist[o].pvr = @ + 1]
         IN IF voteResults.agree = 0 \/ voteResults.disagree = 0
            THEN setTimeout(emitPhaseUpdate([w1 EXCEPT !.heap[o].phase = "round-skipped"],
                                            o, "vote-results"),
                            Closure("roundSkipped", code, 0, SkipMessageDelay))
            ELSE setTimeout(emitPhaseUpdate([w1 EXCEPT !.heap[o].phase = "vote-results"],
                                            o, "vote-results"),
                            Closure("startSoloPhase", code, 0, VoteResultsDelay))

startDiscussionPhase(w, code) ==
    IF code \notin DOMAIN gameStates THEN w
    ELSE LET o == gameStates[code]
         IN startTimer(emitPhaseUpdate([w EXCEPT !.heap[o].phase = "discussion",
                                                 !.heap[o].timer = DiscussionSeconds],
                                       o, "discussion"),
                       code, DiscussionSeconds, "startRevotingPhase")

\* the speakers startSoloPhase draws from
Speakers(g, parts) ==
    LET gameStartParticipants == DOMAIN g.scores
        connectedPlayers == ConnectedNames(parts)
        availableSpeakers == {u \in gameStartParticipants :
                                 u \in connectedPlayers /\ u \notin Elems(g.usedSpeakers)}
    IN IF availableSpeakers # {} THEN availableSpeakers
       ELSE {u \in gameStartParticipants : u \in connectedPlayers}

startSoloPhase(w, code, selectedSpeaker) ==
    IF ~Exists(code) THEN w
    ELSE LET o == gameStates[code]
             g == w.heap[o]
             parts == lobbies[code].participants
             availableSpeakers == {u \in DOMAIN g.scores :
                                      u \in ConnectedNames(parts) /\ u \notin Elems(g.usedSpeakers)}
             used == IF availableSpeakers = {} THEN <<>> ELSE g.usedSpeakers
             w1 == [w EXCEPT !.heap[o].phase = "solo",
                             !.heap[o].timer = SoloSeconds,
                             !.heap[o].usedSpeakers = used]
         IN IF Speakers(g, parts) = {} THEN startDiscussionPhase(w1, code)
            ELSE startTimer(
                   emitPhaseUpdate(
                     [w1 EXCEPT !.heap[o].usedSpeakers = Append(used, selectedSpeaker),
                                !.heap[o].currentSpeaker = selectedSpeaker,
                                !.heap[o].speakerPosition = VoteOr(g.votes, selectedSpeaker)],
                     o, "solo"),
                   code, SoloSeconds, "startDiscussionPhase")

startRevotingPhase(w, code) ==
    IF code \notin DOMAIN gameStates THEN w
    ELSE LET o == gameStates[code]
         IN startTimer(emitPhaseUpdate([w EXCEPT !.heap[o].phase = "revoting",
                                                 !.heap[o].revotes = EmptyMap,
                                                 !.heap[o].timer = RevotingSeconds,
                                                 !.hist[o].calc = 0,
                                                 !.hist[o].base = w.heap[o].scores],
                                       o, "revoting"),
                       code, RevotingSeconds, "calculateResults")

\* the award of the first server (Math.abs(agreeChange - disagreeChange))
WinnerByGap(agreeChange, disagreeChange) ==
    LET gap == IF agreeChange > disagreeChange THEN agreeChange - disagreeChange
               ELSE disagreeChange - agreeChange
    IN IF agreeChange > disagreeChange THEN [team |-> "agree", points |-> gap]
       ELSE IF disagreeChange > agreeChange THEN [team |-> "disagree", points |-> gap]
       ELSE [team |-> "", points |-> 0]

\* winningTeam[0] ("" when the array is empty) and pointsPerWinner
Winner(agreeChange, disagreeChange) ==
    IF agreeChange > disagreeChange THEN [team |-> "agree", points |-> agreeChange]
    ELSE IF disagreeChange > agreeChange THEN [team |-> "disagree", points |-> disagreeChange]
    ELSE [team |-> "", points |-> 0]

\* the award loop and then the penalty loop over lobby.participants
Scored(scores, parts, revotes, win) ==
    LET awarded == [u \in DOMAIN scores |->
                      IF /\ win.team # "" /\ win.points > 0
                         /\ u \in Usernames(parts)
                         /\ u \in DOMAIN revotes /\ revotes[u] = win.team
                      THEN scores[u] + win.points ELSE scores[u]]
    IN [u \in DOMAIN scores |->
          IF /\ u \in ConnectedNames(parts)
             /\ ~(u \in DOMAIN revotes /\ Truthy(revotes[u]))
          THEN awarded[u] - 1 ELSE awarded[u]]

\* a scoring that measures the changes from the tally of the run before
calculateResultsFromLastTally(w, code) ==
    IF ~Exists(code) THEN w
    ELSE LET o == gameStates[code]
             g == w.heap[o]
             parts == lobbies[code].participants
             finalVoteResults == Tally(parts, g.revotes)
             agreeChange == finalVoteResults.agree - g.finalVoteResults.agree
             disagreeChange == finalVoteResults.disagree - g.finalVoteResults.disagree
         IN setTimeout(
              emitPhaseUpdate(
                [w EXCEPT !.heap[o].finalVoteResults = finalVoteResults,
                          !.heap[o].scores = Scored(g.scores, parts, g.revotes,
                                                    Winner(agreeChange, disagreeChange)),
                          !.heap[o].phase = "round-results",
                          !.hist[o].calc = @ + 1],
                o, "round-results"),
              Closure("showScoreboard", code, 0, RoundResultsDelay))

calculateResults(w, code) ==
    IF ~Exists(code) THEN w
    ELSE LET o == gameStates[code]
             g == w.heap[o]
             parts == lobbies[code].participants
             finalVoteResults == Tally(parts, g.revotes)
             agreeChange == finalVoteResults.agree - g.initialVoteResults.agree
             disagreeChange == finalVoteResults.disagree - g.initialVoteResults.disagree
         IN setTimeout(
              emitPhaseUpdate(
                [w EXCEPT !.heap[o].finalVoteResults = finalVoteResults,
                          !.heap[o].scores = Scored(g.scores, parts, g.revotes,
                                                    Winner(agreeChange, disagreeChange)),
                          !.heap[o].phase = "round-results",
                          !.hist[o].calc = @ + 1],
                o, "round-results"),
              Closure("showScoreboard", code, 0, RoundResultsDelay))

showScoreboard(w, code) ==
    IF code \notin DOMAIN gameStates THEN w
    ELSE LET o == gameStates[code]
         IN setTimeout(emitPhaseUpdate([w EXCEPT !.heap[o].phase = "scoreboard"],
                                       o, "scoreboard"),
                       Closure("scoreboardNext", code, o, ScoreboardDelay))

\* the 5000 ms callback of showScoreboard; it holds the gameState object o
scoreboardNext(w, code, o) ==
    LET w1 == [w EXCEPT !.heap[o].roundNumber = @ + 1]
        g == w1.heap[o]
    IN IF g.roundNumber > MaxRounds \/ Len(g.usedTopics) >= Cardinality(debateTopics)
       THEN endGame(w1, code)
       ELSE setTimeout(emitPhaseUpdate([w1 EXCEPT !.heap[o].phase = "waiting"], o, "waiting"),
                       Closure("startVotingPhase", code, 0, WaitingDelay))

\* the 3000 ms callback of the skip branch of processVoteResults
roundSkipped(w, code) ==
    setTimeout(IF code \in DOMAIN gameStates
               THEN emitPhaseUpdate(w, gameStates[code], "round-skipped") ELSE w,
               Closure("showScoreboard", code, 0, SkipScoreboardDelay))

\* the callback an interval was armed with
RunCallback(w, cb, code) ==
    CASE cb = "processVoteResults" -> processVoteResults(w, code)
      [] cb = "startDiscussionPhase" -> startDiscussionPhase(w, code)
      [] cb = "startRevotingPhase" -> startRevotingPhase(w, code)
      [] cb = "calculateResults" -> calculateResults(w, code)
      [] OTHER -> w

Init ==
    /\ lobbies = EmptyMap
    /\ gameStates = EmptyMap
    /\ heap = <<>>
    /\ hist = <<>>
    /\ disconnectedPlayers = EmptyMap
    /\ sockets = {}
    /\ timeouts = EmptyBag
    /\ usedCodes = {}
    /\ starts = 0
    /\ reaper = SweepSeconds
    /\ debateTopics = 1..NumTopics


\* ---- HTTP endpoints

\* POST /api/lobby/create; generateLobbyCode yields a code not used before
HttpCreate(username) ==
    \E code \in Codes \ usedCodes :
        /\ lobbies' = Put(lobbies, code,
                          [host |-> username,
                           participants |-> <<[username |-> username, isHost |-> TRUE,
                                               connected |-> TRUE]>>,
                           gameStarted |-> FALSE])
        /\ usedCodes' = usedCodes \cup {code}
        /\ UNCHANGED <<gameStates, heap, hist, disconnectedPlayers, sockets, timeouts,
                       starts, reaper, debateTopics>>

\* a join that adds the new participant as a host
HttpJoinAsHost(code, username) ==
    IF code \notin DOMAIN lobbies THEN UNCHANGED vars
    ELSE LET lobby == lobbies[code] IN
         IF username \in Usernames(lobby.participants)
         THEN /\ lobbies' = [lobbies EXCEPT ![code].participants =
                                 SetConnected(@, username, TRUE)]
              /\ UNCHANGED <<gameStates, heap, hist, disconnectedPlayers, sockets,
                             timeouts, usedCodes, starts, reaper, debateTopics>>
         ELSE /\ lobbies' = [lobbies EXCEPT ![code].participants =
                                 Append(@, [username |-> username, isHost |-> TRUE,
                                            connected |-> TRUE])]
              /\ heap' = IF code \in DOMAIN gameStates
                         THEN [heap EXCEPT ![gameStates[code]].scores = Put(@, username, 0)]
                         ELSE heap
              /\ UNCHANGED <<gameStates, hist, disconnectedPlayers, sockets, timeouts,
                             usedCodes, starts, reaper, debateTopics>>

\* a join without the reconnection test: every join adds a participant
HttpJoinAgain(code, username) ==
    IF code \notin DOMAIN lobbies THEN UNCHANGED vars
    ELSE /\ lobbies' = [lobbies EXCEPT ![code].participants =
                            Append(@, [username |-> username, isHost |-> FALSE,
                                       connected |-> TRUE])]
         /\ heap' = IF code \in DOMAIN gameStates
                    THEN [heap EXCEPT ![gameStates[code]].scores = Put(@, username, 0)]
                    ELSE heap
         /\ UNCHANGED <<gameStates, hist, disconnectedPlayers, sockets, timeouts,
                        usedCodes, starts, reaper, debateTopics>>

\* a join that adds a participant to the roster and no score for them
HttpJoinNoScore(code, username) ==
    IF code \notin DOMAIN lobbies THEN UNCHANGED vars
    ELSE LET lobby == lobbies[code] IN
         /\ lobbies' = [lobbies EXCEPT ![code].participants =
                            IF username \in Usernames(lobby.participants)
                            THEN SetConnected(@, username, TRUE)
                            ELSE Append(@, [username |-> username, isHost |-> FALSE,
                                            connected |-> TRUE])]
         /\ UNCHANGED <<gameStates, heap, hist, disconnectedPlayers, sockets, timeouts,
                        usedCodes, starts, reaper, debateTopics>>

\* POST /api/lobby/join
HttpJoin(code, username) ==
    IF code \notin DOMAIN lobbies THEN UNCHANGED vars
    ELSE LET lobby == lobbies[code] IN
         IF username \in Usernames(lobby.participants)
         THEN /\ lobbies' = [lobbies EXCEPT ![code].participants =
                                 SetConnected(@, username, TRUE)]
              /\ UNCHANGED <<gameStates, heap, hist, disconnectedPlayers, sockets,
                             timeouts, usedCodes, starts, reaper, debateTopics>>
         ELSE /\ lobbies' = [lobbies EXCEPT ![code].participants =
                                 Append(@, [username |-> username, isHost |-> FALSE,
                                            connected |-> TRUE])]
              /\ heap' = IF code \in DOMAIN gameStates
                         THEN [heap EXCEPT ![gameStates[code]].scores = Put(@, username, 0)]
                         ELSE heap
              /\ UNCHANGED <<gameStates, hist, disconnectedPlayers, sockets, timeouts,
                             usedCodes, starts, reaper, debateTopics>>

\* the response of POST /api/lobby/join to a request that carries a code
\* and a username
JoinResponse(code, username) ==
    IF code \notin DOMAIN lobbies THEN [status |-> 404, reconnection |-> FALSE]
    ELSE IF username \in Usernames(lobbies[code].participants)
         THEN [status |-> 200, reconnection |-> TRUE]
         ELSE [status |-> 200, reconnection |-> FALSE]

\* ---- socket starts

\* join-lobby: the socket takes the identity and the code of the message
JoinLobby(code, username) ==
    /\ sockets' = sockets \cup {[username |-> username, lobbyCode |-> code]}
    /\ lobbies' = IF code \in DOMAIN lobbies
                  THEN [lobbies EXCEPT ![code].participants = SetConnected(@, username, TRUE)]
                  ELSE lobbies
    /\ UNCHANGED <<gameStates, heap, hist, disconnectedPlayers, timeouts, usedCodes,
                   starts, reaper, debateTopics>>

\* `gameState && gameState.phase !== 'waiting'` of leave-lobby and disconnect
GameActive(code) ==
    code \in DOMAIN gameStates /\ heap[gameStates[code]].phase # "waiting"

\* a removal branch that deletes the lobby and keeps its round state
RemoveParticipantKeepsGame(code, username) ==
    LET rest == Without(lobbies[code].participants, username) IN
    IF Len(rest) = 0 \/ username = lobbies[code].host
    THEN /\ lobbies' = Del(lobbies, code)
         /\ UNCHANGED gameStates
    ELSE /\ lobbies' = [lobbies EXCEPT ![code].participants = rest]
         /\ UNCHANGED gameStates

\* the removal branch of leave-lobby and disconnect
RemoveParticipant(code, username) ==
    LET rest == Without(lobbies[code].participants, username) IN
    IF Len(rest) = 0 \/ username = lobbies[code].host
    THEN /\ lobbies' = Del(lobbies, code)
         /\ gameStates' = Del(gameStates, code)
    ELSE /\ lobbies' = [lobbies EXCEPT ![code].participants = rest]
         /\ UNCHANGED gameStates

LeaveLobby(code, username) ==
    IF code \notin DOMAIN lobbies THEN UNCHANGED vars
    ELSE IF GameActive(code)
         THEN /\ IF username \in Usernames(lobbies[code].participants)
                 THEN /\ lobbies' = [lobbies EXCEPT ![code].participants =
                                         SetConnected(@, username, FALSE)]
                      /\ disconnectedPlayers' =
                             Put(disconnectedPlayers, username, [code |-> code, age |-> 0])
                 ELSE UNCHANGED <<lobbies, disconnectedPlayers, reaper, debateTopics>>
              /\ UNCHANGED <<gameStates, heap, hist, sockets, timeouts, usedCodes,
                             starts, reaper, debateTopics>>
         ELSE /\ RemoveParticipant(code, username)
              /\ UNCHANGED <<heap, hist, disconnectedPlayers, sockets, timeouts,
                             usedCodes, starts, reaper, debateTopics>>

\* disconnect of a socket that has joined; the removal branch clears the
\* interval of the gameState before the lobby is deleted
Disconnect(s) ==
    /\ s \in sockets
    /\ sockets' = sockets \ {s}
    /\ LET code == s.lobbyCode
           username == s.username
       IN IF code \notin DOMAIN lobbies
             \/ username \notin Usernames(lobbies[code].participants)
          THEN UNCHANGED <<lobbies, gameStates, heap, hist, disconnectedPlayers,
                           timeouts, usedCodes, starts, reaper, debateTopics>>
          ELSE IF GameActive(code)
               THEN /\ lobbies' = [lobbies EXCEPT ![code].participants =
                                       SetConnected(@, username, FALSE)]
                    /\ disconnectedPlayers' =
                           Put(disconnectedPlayers, username, [code |-> code, age |-> 0])
                    /\ UNCHANGED <<gameStates, heap, hist, timeouts, usedCodes, starts, reaper,
                                   debateTopics>>
               ELSE /\ RemoveParticipant(code, username)
                    /\ heap' = IF code \in DOMAIN gameStates /\ code \notin DOMAIN lobbies'
                               THEN [heap EXCEPT ![gameStates[code]].timerInterval = NoTimer]
                               ELSE heap
                    /\ UNCHANGED <<hist, disconnectedPlayers, timeouts, usedCodes, starts,
                                   reaper, debateTopics>>

\* a start-game handler without the host test
StartGameByAnyone(code, username) ==
    IF /\ code \in DOMAIN lobbies
       /\ Len(lobbies[code].participants) >= 2
    THEN /\ starts' = starts + 1
         /\ lobbies' = [lobbies EXCEPT ![code].gameStarted = TRUE]
         /\ heap' = Append(heap, NewGameState(lobbies[code].participants))
         /\ hist' = Append(hist, [NewHist(EmptyMap) EXCEPT
                                     !.atStart = Usernames(lobbies[code].participants)])
         /\ gameStates' = Put(gameStates, code, Len(heap) + 1)
         /\ timeouts' = timeouts (+) SetToBag({Closure("startVotingPhase", code, 0, StartDelay)})
         /\ UNCHANGED <<disconnectedPlayers, sockets, usedCodes, reaper, debateTopics>>
    ELSE UNCHANGED vars

StartGame(code, username) ==
    IF /\ code \in DOMAIN lobbies
       /\ lobbies[code].host = username
       /\ Len(lobbies[code].participants) >= 2
    THEN /\ starts' = starts + 1
         /\ lobbies' = [lobbies EXCEPT ![code].gameStarted = TRUE]
         /\ heap' = Append(heap, NewGameState(lobbies[code].participants))
         /\ hist' = Append(hist, [NewHist(EmptyMap) EXCEPT
                                     !.atStart = Usernames(lobbies[code].participants)])
         /\ gameStates' = Put(gameStates, code, Len(heap) + 1)
         /\ timeouts' = timeouts (+) SetToBag({Closure("startVotingPhase", code, 0, StartDelay)})
         /\ UNCHANGED <<disconnectedPlayers, sockets, usedCodes, reaper, debateTopics>>
    ELSE UNCHANGED vars

\* restart-game: the host test reads the identity of the socket
RestartGame(s, code) ==
    /\ s \in sockets
    /\ IF Exists(code) /\ s.username = lobbies[code].host
       THEN LET o == gameStates[code]
                parts == lobbies[code].participants
            IN /\ starts' = starts + 1
               /\ heap' = [heap EXCEPT ![o] =
                     [@ EXCEPT !.phase = "voting", !.roundNumber = 1,
                               !.currentTopic = NoTopic,
                               !.votes = EmptyMap, !.revotes = EmptyMap,
                               !.usedTopics = <<>>, !.usedSpeakers = <<>>,
                               !.timer = VotingSeconds,
                               !.initialVoteResults = ZeroTally,
                               !.finalVoteResults = ZeroTally,
                               !.currentSpeaker = NoSpeaker, !.speakerPosition = "",
                               !.scores = [u \in (DOMAIN @) \cup Usernames(parts) |->
                                             IF u \in Usernames(parts) THEN 0 ELSE @[u]],
                               !.timerInterval = NoTimer]]
               /\ hist' = [hist EXCEPT ![o].pvr = 0, ![o].restarted = TRUE,
                                        ![o].atStart = Usernames(parts)]
               /\ timeouts' = timeouts (+) SetToBag({Closure("startVotingPhase", code, 0, StartDelay)})
               /\ UNCHANGED <<lobbies, gameStates, disconnectedPlayers, sockets,
                              usedCodes, reaper, debateTopics>>
       ELSE UNCHANGED vars

\* a fast path that stops the timer and schedules nothing
FastPathNoCallback(w, code, o, cast, fn) ==
    IF Cardinality(DOMAIN cast) >= Cardinality(ConnectedNames(lobbies[code].participants))
    THEN [w EXCEPT !.heap[o].timerInterval = NoTimer]
    ELSE w

\* the fast path shared by cast-vote and cast-revote
FastPath(w, code, o, cast, fn) ==
    IF Cardinality(DOMAIN cast) >= Cardinality(ConnectedNames(lobbies[code].participants))
    THEN setTimeout([w EXCEPT !.heap[o].timerInterval = NoTimer],
                    Closure(fn, code, 0, SettleDelay))
    ELSE w

\* a cast-vote that records the vote in any phase of a round state
CastVoteAnyPhase(code, username, vote) ==
    IF code \in DOMAIN gameStates
    THEN LET o == gameStates[code]
             votes == Put(heap[o].votes, username, vote)
         IN /\ Apply(FastPath([World EXCEPT !.heap[o].votes = votes], code, o, votes,
                              "processVoteResults"))
            /\ UNCHANGED <<lobbies, gameStates, disconnectedPlayers, sockets, usedCodes,
                           starts, reaper, debateTopics>>
    ELSE UNCHANGED vars

CastVote(code, username, vote) ==
    IF code \in DOMAIN gameStates /\ heap[gameStates[code]].phase = "voting"
    THEN LET o == gameStates[code]
             votes == Put(heap[o].votes, username, vote)
         IN /\ Apply(FastPath([World EXCEPT !.heap[o].votes = votes], code, o, votes,
                              "processVoteResults"))
            /\ UNCHANGED <<lobbies, gameStates, disconnectedPlayers, sockets, usedCodes,
                           starts, reaper, debateTopics>>
    ELSE UNCHANGED vars

CastRevote(code, username, vote) ==
    IF code \in DOMAIN gameStates /\ heap[gameStates[code]].phase = "revoting"
    THEN LET o == gameStates[code]
             revotes == Put(heap[o].revotes, username, vote)
         IN /\ Apply(FastPath([World EXCEPT !.heap[o].revotes = revotes], code, o, revotes,
                              "calculateResults"))
            /\ UNCHANGED <<lobbies, gameStates, disconnectedPlayers, sockets, usedCodes,
                           starts, reaper, debateTopics>>
    ELSE UNCHANGED vars

\* ---- the reaper: one sweep of the 60 s interval

\* the number of lobby-updated broadcasts a sweep emits for the record of
\* username
lobbyUpdated(username) ==
    IF /\ username \in DOMAIN disconnectedPlayers
       /\ disconnectedPlayers[username].age > ReapTimeout
       /\ disconnectedPlayers[username].code \in DOMAIN lobbies
    THEN 1 ELSE 0

Sweep ==
    LET expired == {u \in DOMAIN disconnectedPlayers :
                       disconnectedPlayers[u].age > ReapTimeout}
    IN /\ reaper = 0
       /\ reaper' = SweepSeconds
       /\ lobbies' = [c \in DOMAIN lobbies |->
                        [lobbies[c] EXCEPT !.participants =
                            SelectSeq(@, LAMBDA p : ~(p.username \in expired
                                           /\ disconnectedPlayers[p.username].code = c))]]
       /\ disconnectedPlayers' = [u \in (DOMAIN disconnectedPlayers) \ expired |->
                                     disconnectedPlayers[u]]
       /\ UNCHANGED <<gameStates, heap, hist, sockets, timeouts, usedCodes, starts,
                      debateTopics>>

\* ---- timers

Live(o) == heap[o].timerInterval.callback # "none"

\* the seconds until the next callback: of a setTimeout, of the tick of an
\* interval that brings its timer to 0, or of the reaper
Waits ==
    {cl.due : cl \in BagToSet(timeouts)}
        \cup {heap[o].timerInterval.due : o \in {x \in 1..Len(heap) : Live(x)}}
        \cup {reaper}

NextDue == CHOOSE d \in Waits : \A e \in Waits : d <= e

\* k seconds pass in which no callback is due but the ticks of the
\* intervals that leave their timer above 0
Advance(k) ==
    /\ k > 0
    /\ \A d \in Waits : k <= d
    /\ reaper' = reaper - k
    /\ timeouts' = [cl \in {[c EXCEPT !.due = @ - k] : c \in BagToSet(timeouts)} |->
                       timeouts[[cl EXCEPT !.due = @ + k]]]
    /\ heap' = [o \in 1..Len(heap) |->
                  IF Live(o)
                  THEN [heap[o] EXCEPT
                          !.timerInterval.due = @ - k,
                          !.timer = IF heap[o].timerInterval.due = k THEN @ - k + 1 ELSE @ - k]
                  ELSE heap[o]]
    /\ disconnectedPlayers' = [u \in DOMAIN disconnectedPlayers |->
                                  [disconnectedPlayers[u] EXCEPT !.age = @ + k]]
    /\ UNCHANGED <<lobbies, gameStates, hist, sockets, usedCodes, starts, debateTopics>>

\* the tick of the interval of gameState object o that brings its timer to
\* 0: it clears the interval and runs the callback
TimerTick(o) ==
    /\ o \in 1..Len(heap)
    /\ Live(o)
    /\ heap[o].timerInterval.due = 0
    /\ LET ti == heap[o].timerInterval
           w1 == [World EXCEPT !.heap[o].timer = @ - 1]
       IN IF w1.heap[o].timer <= 0
          THEN Apply(RunCallback([w1 EXCEPT !.heap[o].timerInterval = NoTimer],
                                 ti.callback, ti.code))
          ELSE Apply([w1 EXCEPT !.heap[o].timerInterval.due = 1])
    /\ UNCHANGED <<lobbies, gameStates, disconnectedPlayers, sockets, usedCodes, starts,
                   reaper, debateTopics>>

TimerExpires == \E o \in 1..Len(heap) : TimerTick(o)

\* time passes until the next callback is due: the messages of clients are
\* explored at the instants of the callbacks, in every order with them
TimePasses == NextDue > 0 /\ Advance(NextDue)

\* a setTimeout callback whose delay has passed fires
Pending(fn) == {cl \in BagToSet(timeouts) : cl.fn = fn /\ cl.due = 0}
Taken(cl) == [World EXCEPT !.timeouts = @ (-) SetToBag({cl})]
Rest ==
    UNCHANGED <<lobbies, gameStates, disconnectedPlayers, sockets, usedCodes, starts, reaper,
                debateTopics>>

\* the number of pending setTimeout callbacks fn of a lobby
Scheduled(fn, code) ==
    LET same == {cl \in BagToSet(timeouts) : cl.fn = fn /\ cl.code = code}
    IN BagCardinality([cl \in same |-> timeouts[cl]])

\* a choice among all the topics, used or not
TopicChoicesAnyTopic(code) ==
    IF Exists(code) /\ AvailableTopics(heap[gameStates[code]]) # {}
    THEN debateTopics ELSE {NoTopic}

TopicChoices(code) ==
    IF Exists(code) /\ AvailableTopics(heap[gameStates[code]]) # {}
    THEN AvailableTopics(heap[gameStates[code]]) ELSE {NoTopic}

SpeakerChoices(code) ==
    IF Exists(code) /\ Speakers(heap[gameStates[code]], lobbies[code].participants) # {}
    THEN Speakers(heap[gameStates[code]], lobbies[code].participants) ELSE {NoSpeaker}

FireStartVotingPhase ==
    \E cl \in Pending("startVotingPhase") : \E topic \in TopicChoices(cl.code) :
        Apply(startVotingPhase(Taken(cl), cl.code, topic)) /\ Rest

FireProcessVoteResults ==
    \E cl \in Pending("processVoteResults") :
        Apply(processVoteResults(Taken(cl), cl.code)) /\ Rest

FireRoundSkipped ==
    \E cl \in Pending("roundSkipped") : Apply(roundSkipped(Taken(cl), cl.code)) /\ Rest

FireStartSoloPhase ==
    \E cl \in Pending("startSoloPhase") : \E speaker \in SpeakerChoices(cl.code) :
        Apply(startSoloPhase(Taken(cl), cl.code, speaker)) /\ Rest

FireCalculateResults ==
    \E cl \in Pending("calculateResults") :
        Apply(calculateResults(Taken(cl), cl.code)) /\ Rest

FireShowScoreboard ==
    \E cl \in Pending("showScoreboard") : Apply(showScoreboard(Taken(cl), cl.code)) /\ Rest

FireScoreboardNext ==
    \E cl \in Pending("scoreboardNext") :
        Apply(scoreboardNext(Taken(cl), cl.code, cl.obj)) /\ Rest


\* ---- scenarios; the messages of the clients carry the codes that
\* POST /api/lobby/create has handed out

Engine ==
    \/ TimePasses
    \/ Sweep
    \/ TimerExpires
    \/ FireStartVotingPhase
    \/ FireProcessVoteResults
    \/ FireRoundSkipped
    \/ FireStartSoloPhase
    \/ FireCalculateResults
    \/ FireShowScoreboard

\* clients vote on a topic they have been shown
TopicShown(code) ==
    code \in DOMAIN gameStates /\ heap[gameStates[code]].currentTopic # NoTopic

\* cast-vote and cast-revote, with at most MaxCopies equal callbacks pending
Cast(values) ==
    \/ \E c \in usedCodes, u \in Users, v \in values :
          /\ TopicShown(c)
          /\ Scheduled("processVoteResults", c) < MaxCopies
          /\ CastVote(c, u, v)
    \/ \E c \in usedCodes, u \in Users, v \in values :
          /\ TopicShown(c)
          /\ Scheduled("calculateResults", c) < MaxCopies
          /\ CastRevote(c, u, v)

Sides == {"agree", "disagree"}
Host == UserNames[1]
Guest == UserNames[2]

\* lobby 1 after create by the host, join by the guest and both join-lobby
InitRound ==
    /\ lobbies = Put(EmptyMap, 1,
                     [host |-> Host,
                      participants |-> <<[username |-> Host, isHost |-> TRUE, connected |-> TRUE],
                                         [username |-> Guest, isHost |-> FALSE, connected |-> TRUE]>>,
                      gameStarted |-> FALSE])
    /\ gameStates = EmptyMap
    /\ heap = <<>>
    /\ hist = <<>>
    /\ disconnectedPlayers = EmptyMap
    /\ sockets = {[username |-> Host, lobbyCode |-> 1], [username |-> Guest, lobbyCode |-> 1]}
    /\ timeouts = EmptyBag
    /\ usedCodes = {1}
    /\ starts = 0
    /\ reaper = SweepSeconds
    /\ debateTopics = 1..NumTopics

\* lobby life cycle: every membership handler, the reaper, one start-game
\* and the phase engine; nobody votes, so every round is skipped
NextLobby ==
    \/ usedCodes = {} /\ HttpCreate(Host)
    \/ \E c \in usedCodes, u \in Users : HttpJoin(c, u)
    \/ \E c \in usedCodes, u \in Users : JoinLobby(c, u)
    \/ \E c \in usedCodes, u \in Users : LeaveLobby(c, u)
    \/ \E s \in sockets : Disconnect(s)
    \/ \E c \in usedCodes, u \in Users : starts < 1 /\ StartGame(c, u)
    \/ Sweep
    \/ TimePasses
    \/ TimerExpires
    \/ FireStartVotingPhase
    \/ FireRoundSkipped
    \/ FireShowScoreboard
    \/ FireScoreboardNext

SpecLobby == Init /\ [][NextLobby]_vars

\* one round of one game between the two players, any vote value
NextRound ==
    \/ \E c \in usedCodes, u \in Users : starts < 1 /\ StartGame(c, u)
    \/ Cast(VoteValues)
    \/ Engine

SpecRound == InitRound /\ [][NextRound]_vars

\* one round in which cast-vote and cast-revote arrive at any time: before
\* the game is started, before the topic is shown and in every phase
NextVote ==
    \/ \E c \in usedCodes, u \in Users : starts < 1 /\ StartGame(c, u)
    \/ \E c \in usedCodes, u \in Users, v \in Sides :
          /\ Scheduled("processVoteResults", c) < 1
          /\ CastVote(c, u, v)
    \/ \E c \in usedCodes, u \in Users, v \in Sides :
          /\ Scheduled("calculateResults", c) < 1
          /\ CastRevote(c, u, v)
    \/ Engine

SpecVote == InitRound /\ [][NextVote]_vars

\* a round in which the host starts again or restarts
NextRestart ==
    \/ \E c \in usedCodes, u \in Users : starts < MaxStarts /\ StartGame(c, u)
    \/ \E s \in sockets, c \in usedCodes : starts < MaxStarts /\ RestartGame(s, c)
    \/ \E c \in usedCodes, u \in Users, v \in Sides :
          /\ TopicShown(c)
          /\ Scheduled("processVoteResults", c) < 1
          /\ CastVote(c, u, v)
    \/ \E c \in usedCodes, u \in Users, v \in Sides :
          /\ TopicShown(c)
          /\ Scheduled("calculateResults", c) < 1
          /\ CastRevote(c, u, v)
    \/ Engine

SpecRestart == InitRound /\ [][NextRestart]_vars

\* a round during which the guest disconnects and joins again; a vote is
\* settled once, a revote may be settled again
NextReconnect ==
    \/ \E c \in usedCodes, u \in Users : starts < 1 /\ StartGame(c, u)
    \/ \E c \in usedCodes, u \in Users, v \in Sides :
          /\ TopicShown(c)
          /\ Scheduled("processVoteResults", c) < 1
          /\ CastVote(c, u, v)
    \/ \E c \in usedCodes, u \in Users, v \in Sides :
          /\ TopicShown(c)
          /\ Scheduled("calculateResults", c) < MaxCopies
          /\ CastRevote(c, u, v)
    \/ \E s \in sockets : s.username # Host /\ Disconnect(s)
    \/ \E c \in usedCodes, u \in Users \ {Host} : JoinLobby(c, u)
    \/ \E c \in usedCodes, u \in Users \ {Host} : HttpJoin(c, u)
    \/ Engine

SpecReconnect == InitRound /\ [][NextReconnect]_vars

\* two lobbies of the same two usernames; the games are started once each,
\* nobody votes, and the guest drops out of either
InitTwoLobbies ==
    LET lobby == [host |-> Host,
                  participants |-> <<[username |-> Host, isHost |-> TRUE, connected |-> TRUE],
                                     [username |-> Guest, isHost |-> FALSE, connected |-> TRUE]>>,
                  gameStarted |-> FALSE]
    IN /\ lobbies = [c \in Codes |-> lobby]
       /\ gameStates = EmptyMap
       /\ heap = <<>>
       /\ hist = <<>>
       /\ disconnectedPlayers = EmptyMap
       /\ sockets = {[username |-> u, lobbyCode |-> c] : u \in {Host, Guest}, c \in Codes}
       /\ timeouts = EmptyBag
       /\ usedCodes = Codes
       /\ starts = 0
       /\ reaper = SweepSeconds
       /\ debateTopics = 1..NumTopics

NextTwoLobbies ==
    \/ \E c \in usedCodes : c \notin DOMAIN gameStates /\ StartGame(c, Host)
    \/ \E s \in sockets : s.username = Guest /\ Disconnect(s)
    \/ Sweep
    \/ TimePasses
    \/ TimerExpires
    \/ FireStartVotingPhase
    \/ FireRoundSkipped
    \/ FireShowScoreboard
    \/ FireScoreboardNext

SpecTwoLobbies == InitTwoLobbies /\ [][NextTwoLobbies]_vars

\* a whole game on every topic list of up to MaxTopics topics; whoever
\* votes agrees, so every round is skipped
InitGame ==
    /\ lobbies = Put(EmptyMap, 1,
                     [host |-> Host,
                      participants |-> <<[username |-> Host, isHost |-> TRUE, connected |-> TRUE],
                                         [username |-> Guest, isHost |-> FALSE, connected |-> TRUE]>>,
                      gameStarted |-> FALSE])
    /\ gameStates = EmptyMap
    /\ heap = <<>>
    /\ hist = <<>>
    /\ disconnectedPlayers = EmptyMap
    /\ sockets = {[username |-> Host, lobbyCode |-> 1], [username |-> Guest, lobbyCode |-> 1]}
    /\ timeouts = EmptyBag
    /\ usedCodes = {1}
    /\ starts = 0
    /\ reaper = SweepSeconds
    /\ debateTopics \in {1..n : n \in 1..MaxTopics}

NextGame ==
    \/ \E c \in usedCodes, u \in Users : starts < 1 /\ StartGame(c, u)
    \/ \E c \in usedCodes, u \in Users :
          /\ TopicShown(c)
          /\ Scheduled("processVoteResults", c) < MaxCopies
          /\ CastVote(c, u, "agree")
    \/ Sweep
    \/ TimePasses
    \/ TimerExpires
    \/ FireStartVotingPhase
    \/ FireProcessVoteResults
    \/ FireRoundSkipped
    \/ FireShowScoreboard
    \/ FireScoreboardNext

SpecGame == InitGame /\ [][NextGame]_vars

\* a round that a third person joins after the game has started
Late == UserNames[NumUsers + 1]

NextLateJoin ==
    \/ \E c \in usedCodes : starts < 1 /\ StartGame(c, Host)
    \/ \E c \in usedCodes, u \in Users \cup {Late}, v \in Sides :
          /\ TopicShown(c)
          /\ Scheduled("processVoteResults", c) < 1
          /\ CastVote(c, u, v)
    \/ \E c \in usedCodes, u \in Users \cup {Late}, v \in Sides :
          /\ TopicShown(c)
          /\ Scheduled("calculateResults", c) < 1
          /\ CastRevote(c, u, v)
    \/ \E c \in usedCodes : HttpJoin(c, Late)
    \/ Engine

SpecLateJoin == InitRound /\ [][NextLateJoin]_vars

\* a round that is scored, that a third person joins at any time, before
\* or after start-game, and that the host may restart
NextJoinScore ==
    \/ \E c \in usedCodes : starts < 1 /\ StartGame(c, Host)
    \/ \E s \in sockets, c \in usedCodes :
          starts >= 1 /\ starts < MaxStarts /\ RestartGame(s, c)
    \/ \E c \in usedCodes, u \in Users \cup {Late} :
          /\ TopicShown(c)
          /\ Scheduled("processVoteResults", c) < 1
          /\ CastVote(c, u, IF u = Host THEN "agree" ELSE "disagree")
    \/ \E c \in usedCodes, u \in {Guest, Late} :
          /\ TopicShown(c)
          /\ Scheduled("calculateResults", c) < 1
          /\ CastRevote(c, u, "agree")
    \/ \E c \in usedCodes : HttpJoin(c, Late)
    \/ Engine

SpecJoinScore == InitRound /\ [][NextJoinScore]_vars

\* a whole game that is started once and never restarted or torn down; in
\* its first ActiveRounds rounds the players vote and revote, the guest
\* drops out and comes back and a third person joins late; timers, the
\* reaper and delayed callbacks fire fairly, as the event loop runs them
Playing(code) ==
    TopicShown(code) /\ heap[gameStates[code]].roundNumber <= ActiveRounds

NextLive ==
    \/ \E c \in usedCodes : starts < 1 /\ StartGame(c, Host)
    \/ \E c \in usedCodes, u \in Users :
          /\ Playing(c)
          /\ Scheduled("processVoteResults", c) < 1
          /\ CastVote(c, u, IF u = Host THEN "agree" ELSE "disagree")
    \/ \E c \in usedCodes, u \in Users :
          /\ Playing(c)
          /\ Scheduled("calculateResults", c) < 1
          /\ CastRevote(c, u, "agree")
    \/ \E s \in sockets : s.username # Host /\ Playing(s.lobbyCode) /\ Disconnect(s)
    \/ \E c \in usedCodes : Playing(c) /\ JoinLobby(c, Guest)
    \/ \E c \in usedCodes : Playing(c) /\ HttpJoin(c, Late)
    \/ Engine
    \/ FireScoreboardNext

Fairness ==
    /\ WF_vars(TimePasses)
    /\ WF_vars(Sweep)
    /\ WF_vars(TimerExpires)
    /\ WF_vars(FireStartVotingPhase)
    /\ WF_vars(FireProcessVoteResults)
    /\ WF_vars(FireRoundSkipped)
    /\ WF_vars(FireStartSoloPhase)
    /\ WF_vars(FireCalculateResults)
    /\ WF_vars(FireShowScoreboard)
    /\ WF_vars(FireScoreboardNext)

SpecLive == InitRound /\ [][NextLive]_vars /\ Fairness

\* a game of skipped rounds, with repeated votes, which the players leave
\* or drop out of between two rounds
NextTeardown ==
    \/ NextGame
    \/ \E c \in DOMAIN gameStates, u \in Users :
          heap[gameStates[c]].phase = "waiting" /\ LeaveLobby(c, u)
    \/ \E s \in sockets :
          /\ s.lobbyCode \in DOMAIN gameStates
          /\ heap[gameStates[s.lobbyCode]].phase = "waiting"
          /\ Disconnect(s)

SpecTeardown == InitRound /\ [][NextTeardown]_vars

\* calculateResults on every roster of NumScorers participants, every
\* revote map and every initial tally that let the round go on
Scorers == [i \in 1..NumScorers |-> UserNames[i]]
ScoreVotes == UNION {[D -> VoteValues] : D \in SUBSET Elems(Scorers)}
ScoreTallies == {t \in [agree : 1..NumScorers, disagree : 1..NumScorers,
                        abstain : 0..NumScorers] :
                    t.agree + t.disagree + t.abstain <= NumScorers}

InitScore ==
    \E conn \in [1..NumScorers -> BOOLEAN], rv \in ScoreVotes, t \in ScoreTallies,
       sc \in [Elems(Scorers) -> {0, 2}] :
        /\ lobbies = Put(EmptyMap, 1,
               [host |-> Scorers[1],
                participants |-> [i \in 1..NumScorers |->
                                    [username |-> Scorers[i], isHost |-> i = 1,
                                     connected |-> conn[i]]],
                gameStarted |-> TRUE])
        /\ gameStates = Put(EmptyMap, 1, 1)
        /\ heap = <<[NewGameState(<<>>) EXCEPT
                       !.phase = "revoting", !.currentTopic = 1, !.usedTopics = <<1>>,
                       !.revotes = rv, !.scores = sc, !.initialVoteResults = t,
                       !.timer = 1,
                       !.timerInterval = [callback |-> "calculateResults", code |-> 1,
                                          due |-> 0]]>>
        /\ hist = <<[NewHist(sc) EXCEPT !.pvr = 1]>>
        /\ disconnectedPlayers = EmptyMap
        /\ sockets = {}
        /\ timeouts = EmptyBag
        /\ usedCodes = {1}
        /\ starts = 1
        /\ reaper = SweepSeconds
        /\ debateTopics = 1..NumTopics

NextScore == TimerExpires

SpecScore == InitScore /\ [][NextScore]_vars


\* ---- properties

PhaseOf(code) == IF code \in DOMAIN gameStates THEN heap[gameStates[code]].phase ELSE "none"
Sum(tally) == tally.agree + tally.disagree + tally.abstain
Max(a, b) == IF a > b THEN a ELSE b
Revoted(g, u, v) == u \in DOMAIN g.revotes /\ g.revotes[u] = v

\* C1: between two entries into voting processVoteResults runs at most
\* once for a round state, and between two entries into revoting
\* calculateResults runs at most once.
SingleTrigger == \A o \in 1..Len(hist) : hist[o].pvr <= 1 /\ hist[o].calc <= 1

\* C2: for every lobby code at most one interval is live.
OneArmedTimer ==
    \A c \in Codes :
        Cardinality({o \in 1..Len(heap) : /\ heap[o].timerInterval.callback # "none"
                                          /\ heap[o].timerInterval.code = c}) <= 1

\* C3: the phase of a lobby's round state changes only along the edges of
\* the round cycle and the skip edges, or into voting (start-game,
\* restart-game and the startVotingPhase they schedule).
PhaseEdges ==
    {<<"voting", "vote-results">>, <<"voting", "round-skipped">>,
     <<"vote-results", "solo">>, <<"solo", "discussion">>,
     <<"discussion", "revoting">>, <<"revoting", "round-results">>,
     <<"round-results", "scoreboard">>, <<"vote-results", "scoreboard">>,
     <<"round-skipped", "scoreboard">>, <<"scoreboard", "waiting">>,
     <<"waiting", "voting">>}

PhaseFollowsEdges ==
    [][\A c \in DOMAIN gameStates :
          \/ PhaseOf(c)' = PhaseOf(c)
          \/ <<PhaseOf(c), PhaseOf(c)'>> \in PhaseEdges
          \/ c \notin DOMAIN gameStates'
          \/ PhaseOf(c)' = "voting"]_vars

\* C4: the reaper never removes a guest whose connected flag is true (a
\* reconnection has removed the record the sweep would act on).
ReconnectCancelsEviction ==
    [][\A c \in DOMAIN lobbies : \A u \in ConnectedNames(lobbies[c].participants) :
          (/\ c \in DOMAIN lobbies'
           /\ u # lobbies[c].host
           /\ u \in DOMAIN disconnectedPlayers
           /\ u \notin DOMAIN disconnectedPlayers')
          => u \in Usernames(lobbies'[c].participants)]_vars

\* C5: in a started game a join (HTTP or join-lobby) with an identity of
\* the roster leaves the roster with the same entries in the same order,
\* this entry connected and every other flag as it was, and leaves every
\* round state (scores, votes, revotes) and the registry as they were.
Reconnected(c, u) ==
    /\ c \in DOMAIN lobbies'
    /\ LET old == lobbies[c].participants
           new == lobbies'[c].participants
       IN /\ Len(new) = Len(old)
          /\ \A i \in 1..Len(old) :
                /\ new[i].username = old[i].username
                /\ new[i].isHost = old[i].isHost
                /\ new[i].connected = (old[i].connected \/ old[i].username = u)
    /\ lobbies'[c].host = lobbies[c].host
    /\ heap' = heap
    /\ gameStates' = gameStates

JoinIsReconnection ==
    [][\A c \in Codes, u \in Users :
          (/\ c \in DOMAIN lobbies
           /\ lobbies[c].gameStarted
           /\ u \in Usernames(lobbies[c].participants)
           /\ (HttpJoin(c, u) \/ JoinLobby(c, u)))
          => Reconnected(c, u)]_vars

\* a guest with points who dropped out of the started game and is back
ReconnectedWithScore ==
    /\ 1 \in DOMAIN gameStates /\ 1 \in DOMAIN lobbies
    /\ lobbies[1].gameStarted
    /\ Guest \in ConnectedNames(lobbies[1].participants)
    /\ Guest \in DOMAIN disconnectedPlayers
    /\ heap[gameStates[1]].scores[Guest] > 0
    /\ Guest \in DOMAIN heap[gameStates[1]].votes

\* C6: a leave-lobby or a disconnect of the host removes the lobby and its
\* round state in the same step, whatever the phase.
HostTeardown ==
    [][\A c \in Codes :
          (/\ c \in DOMAIN lobbies
           /\ lobbies[c].host \in Usernames(lobbies[c].participants)
           /\ \/ LeaveLobby(c, lobbies[c].host)
              \/ \E s \in sockets : /\ s.lobbyCode = c
                                    /\ s.username = lobbies[c].host
                                    /\ Disconnect(s))
          => (c \notin DOMAIN lobbies' /\ c \notin DOMAIN gameStates')]_vars

\* the changes of the two sides in a round state whose results are computed
AgreeChange(g) == g.finalVoteResults.agree - g.initialVoteResults.agree
DisagreeChange(g) == g.finalVoteResults.disagree - g.initialVoteResults.disagree
WinningSide(g) ==
    IF AgreeChange(g) > DisagreeChange(g) THEN "agree"
    ELSE IF DisagreeChange(g) > AgreeChange(g) THEN "disagree" ELSE "nobody"
Computed(o) == heap[o].phase = "round-results" /\ hist[o].calc = 1

\* C7 as stated: once calculateResults has run, every participant whose
\* revote is the winning side has max(agreeChange, disagreeChange) more
\* than before, and nobody else has more than before.
AwardMaxChange ==
    \A c \in DOMAIN gameStates : LET o == gameStates[c] g == heap[o] IN
        Computed(o) =>
            \A i \in 1..Len(lobbies[c].participants) :
                LET u == lobbies[c].participants[i].username IN
                IF Revoted(g, u, WinningSide(g))
                THEN g.scores[u] = hist[o].base[u] + Max(AgreeChange(g), DisagreeChange(g))
                ELSE g.scores[u] <= hist[o].base[u]

\* C7 amended: the winners have max(agreeChange, disagreeChange) more than
\* before when that number is positive and their score as before when it is
\* not; nobody else has more than before.
AwardPositiveGain ==
    \A c \in DOMAIN gameStates : LET o == gameStates[c] g == heap[o] IN
        Computed(o) =>
            \A i \in 1..Len(lobbies[c].participants) :
                LET u == lobbies[c].participants[i].username
                    gain == Max(AgreeChange(g), DisagreeChange(g))
                IN IF Revoted(g, u, WinningSide(g))
                   THEN g.scores[u] = hist[o].base[u] + Max(gain, 0)
                   ELSE g.scores[u] <= hist[o].base[u]

\* the side that lost fewer votes wins and its revoter keeps the old score
AwardWithheld ==
    \E c \in DOMAIN gameStates : LET o == gameStates[c] g == heap[o] IN
        /\ Computed(o)
        /\ WinningSide(g) = "agree"
        /\ AgreeChange(g) < 0
        /\ \E u \in Usernames(lobbies[c].participants) :
              Revoted(g, u, "agree") /\ g.scores[u] = hist[o].base[u]
        /\ \E u \in Usernames(lobbies[c].participants) :
              Revoted(g, u, "disagree")

\* C8: a run of calculateResults leaves every participant who is connected
\* and has no revote with one point less than at the entry into revoting,
\* and takes nothing from a participant who revoted or is disconnected.
PenaltyExactlyOne ==
    [][\A c \in DOMAIN gameStates : LET o == gameStates[c] IN
          (o \in 1..Len(hist) /\ hist'[o].calc = hist[o].calc + 1 /\ c \in DOMAIN lobbies) =>
              \A u \in Usernames(lobbies[c].participants) :
                  IF /\ u \in ConnectedNames(lobbies[c].participants)
                     /\ ~(u \in DOMAIN heap[o].revotes /\ Truthy(heap[o].revotes[u]))
                  THEN heap'[o].scores[u] = hist[o].base[u] - 1
                  ELSE heap'[o].scores[u] >= hist[o].base[u]]_vars

\* C9: a round state in phase round-skipped goes to no phase but the
\* scoreboard (or to voting), and its scores stay as they are.
SkippedRoundBypasses ==
    [][\A c \in DOMAIN gameStates :
          (PhaseOf(c) = "round-skipped" /\ c \in DOMAIN gameStates' /\ starts' = starts) =>
              /\ PhaseOf(c)' \in {"round-skipped", "scoreboard", "voting"}
              /\ heap'[gameStates[c]].scores = heap[gameStates[c]].scores]_vars

\* C10: a tally written by processVoteResults or by calculateResults counts
\* every connected participant once.
TallyCountsConnected ==
    [][\A c \in DOMAIN gameStates : LET o == gameStates[c] IN
          (o \in 1..Len(hist) /\ c \in DOMAIN lobbies) =>
              /\ hist'[o].pvr = hist[o].pvr + 1 =>
                    Sum(heap'[o].initialVoteResults) =
                        Cardinality(ConnectedNames(lobbies[c].participants))
              /\ hist'[o].calc = hist[o].calc + 1 =>
                    Sum(heap'[o].finalVoteResults) =
                        Cardinality(ConnectedNames(lobbies[c].participants))]_vars

\* C11: a round state exists for a lobby code exactly when the lobby is in
\* the registry and its gameStarted flag is true.
RoundStateIffStarted ==
    \A c \in Codes :
        (c \in DOMAIN gameStates) <=> (c \in DOMAIN lobbies /\ lobbies[c].gameStarted)

\* a game was started and its lobby and round state are gone again
StartedLobbyRemoved == starts > 0 /\ lobbies = EmptyMap /\ gameStates = EmptyMap

Hosts(c) == {i \in 1..Len(lobbies[c].participants) : lobbies[c].participants[i].isHost}

\* C12: every lobby has at most one participant with isHost = true, that
\* participant is the one who created the lobby, and the host of a lobby is
\* never another identity afterwards.
HostIsCreator ==
    /\ [](\A c \in DOMAIN lobbies :
            /\ Cardinality(Hosts(c)) <= 1
            /\ \A i \in Hosts(c) : /\ i = 1
                                    /\ lobbies[c].participants[i].username = lobbies[c].host)
    /\ [][\A c \in DOMAIN lobbies \cap DOMAIN lobbies' : lobbies[c].host' = lobbies[c].host]_vars

\* the host was evicted by the reaper and nobody took the host status over
HostEvictedNoSuccessor ==
    \E c \in DOMAIN lobbies :
        /\ Len(lobbies[c].participants) > 0
        /\ lobbies[c].host \notin Usernames(lobbies[c].participants)
        /\ Hosts(c) = {}

\* C13: after a restart-game of the host nothing scheduled before it takes
\* effect: until startVotingPhase has run the phase stays voting, the round
\* number stays 1 and no tally and no score changes.
RestartDiscardsScheduled ==
    [][\A o \in 1..Len(heap) :
          hist[o].restarted =>
              /\ heap'[o].phase = "voting"
              /\ heap'[o].roundNumber = 1
              /\ heap'[o].scores = heap[o].scores
              /\ heap'[o].initialVoteResults = heap[o].initialVoteResults
              /\ heap'[o].finalVoteResults = heap[o].finalVoteResults]_vars

\* C14: while the game of a lobby has not started, a join whose identity is
\* already in the roster is answered with an error and leaves the roster as
\* it is.
DuplicateJoinRejected ==
    \A c \in DOMAIN lobbies, u \in Users :
        (~lobbies[c].gameStarted /\ u \in Usernames(lobbies[c].participants)) =>
            /\ JoinResponse(c, u).status >= 400
            /\ SetConnected(lobbies[c].participants, u, TRUE) = lobbies[c].participants

\* C15: a start-game that names a participant other than the host, and a
\* restart-game from the socket of a participant other than the host, leave
\* the lobby, the round state and the timer as they are and schedule nothing.
NonHostIgnored ==
    [][\A c \in DOMAIN lobbies :
          /\ \A u \in Users \ {lobbies[c].host} : StartGame(c, u) => UNCHANGED vars
          /\ \A s \in sockets :
                 (s.username # lobbies[c].host /\ RestartGame(s, c)) => UNCHANGED vars]_vars

\* a round is running with its timer armed, the host has started the game
\* once, and a participant other than the host is connected with a socket
NonHostInRunningGame ==
    \E c \in DOMAIN gameStates :
        /\ starts = 1
        /\ heap[gameStates[c]].phase = "discussion"
        /\ Live(gameStates[c])
        /\ \E s \in sockets : s.lobbyCode = c /\ s.username # lobbies[c].host

Departs(c, u) ==
    \/ LeaveLobby(c, u)
    \/ \E s \in sockets : s.username = u /\ s.lobbyCode = c /\ Disconnect(s)

InRoster(lbs, c, u) == c \in DOMAIN lbs /\ u \in Usernames(lbs[c].participants)

\* C16: a leave or disconnect of a participant other than the host removes
\* them from the roster at once when the game has not started; once the
\* game has started, in every phase, they stay in the roster with
\* connected = false and a disconnect record is stored.
GraceOnlyAfterStart ==
    [][\A c \in DOMAIN lobbies, u \in Users :
          (InRoster(lobbies, c, u) /\ u # lobbies[c].host /\ Departs(c, u)) =>
              IF lobbies[c].gameStarted
              THEN /\ InRoster(lobbies', c, u)
                   /\ u \notin ConnectedNames(lobbies'[c].participants)
                   /\ u \in DOMAIN disconnectedPlayers'
                   /\ disconnectedPlayers'[u] = [code |-> c, age |-> 0]
              ELSE ~InRoster(lobbies', c, u)]_vars

\* C17: a participant who is flagged disconnected has a record of their own
\* lobby waiting for the reaper; a sweep removes every record older than
\* the grace window together with its participant and emits one
\* lobby-updated for it, it leaves the younger records and their
\* participants alone, and no record outlives the first sweep after its
\* grace window, so no later sweep evicts or broadcasts for it again.
EvictedOnce ==
    /\ [](\A c \in DOMAIN lobbies, u \in Users :
              (InRoster(lobbies, c, u) /\ u \notin ConnectedNames(lobbies[c].participants)) =>
                  /\ u \in DOMAIN disconnectedPlayers
                  /\ disconnectedPlayers[u].code = c)
    /\ [](\A u \in DOMAIN disconnectedPlayers :
              disconnectedPlayers[u].age <= ReapTimeout + SweepSeconds)
    /\ [][Sweep =>
            \A u \in DOMAIN disconnectedPlayers :
                LET c == disconnectedPlayers[u].code IN
                IF disconnectedPlayers[u].age > ReapTimeout
                THEN /\ u \notin DOMAIN disconnectedPlayers'
                     /\ ~InRoster(lobbies', c, u)
                     /\ c \in DOMAIN lobbies => lobbyUpdated(u) = 1
                     /\ lobbyUpdated(u)' = 0
                ELSE /\ u \in DOMAIN disconnectedPlayers'
                     /\ lobbyUpdated(u) = 0
                     /\ InRoster(lobbies', c, u) = InRoster(lobbies, c, u)]_vars

\* C18: in a game without restart the round in play is at most round
\* MaxRounds and at most the number of topics; after the scoreboard the
\* round number goes up by one and the game ends (game-ended once, no
\* startVotingPhase scheduled, no timer armed) exactly when the new round
\* number is above MaxRounds or every topic has been used, and otherwise
\* the phase is waiting with one startVotingPhase scheduled; an ended game
\* starts no voting phase.
GameEndsInTime ==
    /\ [](\A c \in DOMAIN gameStates :
              LET o == gameStates[c]
                  g == heap[o]
              IN /\ TopicShown(c) /\ g.phase = "voting" =>
                        /\ g.roundNumber <= MaxRounds
                        /\ g.roundNumber <= Cardinality(debateTopics)
                 /\ hist[o].ended <= 1
                 /\ hist[o].ended = 1 =>
                        /\ g.phase = "scoreboard"
                        /\ ~Live(o)
                        /\ timeouts = EmptyBag)
    /\ [][\A c \in DOMAIN gameStates \cap DOMAIN gameStates' :
            LET o == gameStates[c] IN
            (gameStates'[c] = o /\ heap'[o].roundNumber # heap[o].roundNumber) =>
                /\ heap'[o].roundNumber = heap[o].roundNumber + 1
                /\ IF \/ heap'[o].roundNumber > MaxRounds
                      \/ Len(heap[o].usedTopics) >= Cardinality(debateTopics)
                   THEN /\ hist'[o].ended = hist[o].ended + 1
                        /\ Scheduled("startVotingPhase", c)' = 0
                        /\ ~Live(o)'
                   ELSE /\ hist'[o].ended = hist[o].ended
                        /\ heap'[o].phase = "waiting"
                        /\ Scheduled("startVotingPhase", c)' = 1]_vars

\* the tick of the interval of gameState object o that runs its callback
Expires(o) == TimerTick(o) /\ heap[o].timer <= 1

\* C19: the expiry callback of an armed interval runs on the tick that
\* brings the remaining time from 1 to 0 and leaves the interval cleared or
\* armed afresh by the callback; it does not run after the lobby's round
\* state has been torn down, nor after a later arming for the same lobby.
ExpiryOncePerArming ==
    [][\A o \in 1..Len(heap) :
         Expires(o) =>
             LET c == heap[o].timerInterval.code IN
             /\ heap[o].timer = 1
             /\ \/ ~Live(o)'
                \/ /\ heap'[o].timerInterval.due = heap'[o].timer
                   /\ heap'[o].timer > 1
             /\ c \in DOMAIN gameStates
             /\ \/ gameStates[c] = o
                \/ heap[gameStates[c]].currentTopic = NoTopic]_vars

\* C20: a cast-vote (cast-revote) schedules processVoteResults
\* (calculateResults) only when every connected participant of the lobby
\* has an entry in votes (revotes).
FastPathAllConnectedVoted ==
    [][\A c \in DOMAIN gameStates \cap DOMAIN lobbies :
         LET o == gameStates[c]
             connected == ConnectedNames(lobbies[c].participants)
         IN /\ Scheduled("processVoteResults", c)' > Scheduled("processVoteResults", c) =>
                  connected \subseteq DOMAIN heap'[o].votes
            /\ Scheduled("calculateResults", c)' > Scheduled("calculateResults", c) =>
                  connected \subseteq DOMAIN heap'[o].revotes]_vars

TornDownIsQuiet ==
    [][\A c \in usedCodes :
         c \notin DOMAIN lobbies =>
             /\ heap' = heap
             /\ \A fn \in {cl.fn : cl \in BagToSet(timeouts')} :
                    Scheduled(fn, c)' <= Scheduled(fn, c)]_vars

\* C23: a round state whose game has ended has phase ended and no armed
\* timer, and until a restart-game or a new start-game its phase and scores
\* do not change and game-ended is not emitted again.
GameEndIsTerminal ==
    /\ [](\A o \in 1..Len(hist) :
              hist[o].ended >= 1 => heap[o].phase = "ended" /\ ~Live(o))
    /\ [][\A o \in 1..Len(hist) :
              (/\ hist[o].ended >= 1
               /\ hist'[o].restarted = hist[o].restarted
               /\ starts' = starts) =>
                  /\ heap'[o].phase = heap[o].phase
                  /\ heap'[o].scores = heap[o].scores
                  /\ heap'[o].timer = heap[o].timer
                  /\ hist'[o].ended = hist[o].ended]_vars

\* C24: usedTopics holds topics of the list without a duplicate, and a
\* step that is neither a restart nor a new start leaves it as it is or
\* appends one topic that was not in it, which becomes the current topic.
TopicsUsedOnce ==
    /\ [](\A o \in 1..Len(heap) :
              LET used == heap[o].usedTopics IN
              /\ Elems(used) \subseteq debateTopics
              /\ \A i, j \in 1..Len(used) : used[i] = used[j] => i = j)
    /\ [][\A o \in 1..Len(heap) :
              LET used == heap[o].usedTopics IN
              (hist'[o].restarted = hist[o].restarted \/ hist[o].restarted) =>
                  \/ heap'[o].usedTopics = used
                  \/ /\ Len(heap'[o].usedTopics) = Len(used) + 1
                     /\ SubSeq(heap'[o].usedTopics, 1, Len(used)) = used
                     /\ heap'[o].currentTopic \notin Elems(used)
                     /\ heap'[o].usedTopics[Len(used) + 1] = heap'[o].currentTopic]_vars

\* the third topic of a game has been chosen
ThreeTopicsUsed ==
    \E o \in 1..Len(heap) : Len(heap[o].usedTopics) = 3 /\ heap[o].phase = "voting"

\* C25: a speaker chosen by startSoloPhase was in the roster when the game
\* was started, is connected when chosen, and is not in usedSpeakers unless
\* no connected participant of the start roster was left outside it.
SpeakerEligible ==
    [][\A c \in DOMAIN gameStates \cap DOMAIN lobbies :
         LET o == gameStates[c]
             chosen == heap'[o].currentSpeaker
             connected == ConnectedNames(lobbies[c].participants)
             eligible == (hist[o].atStart \cap connected) \ Elems(heap[o].usedSpeakers)
         IN (/\ FireStartSoloPhase
             /\ heap'[o].phase = "solo"
             /\ heap'[o].timerInterval.callback = "startDiscussionPhase") =>
                 /\ chosen \in hist[o].atStart
                 /\ chosen \in connected
                 /\ chosen \notin Elems(heap[o].usedSpeakers) \/ eligible = {}]_vars

\* C26: roundNumber is 1 after a start or a restart, a step changes it only
\* by adding 1 or by a restart, and it counts the rounds: it is the number
\* of topics shown in the game, or one more once the scoreboard of the last
\* of them is over.
RoundNumberCountsRounds ==
    /\ [](\A o \in 1..Len(heap) :
              LET g == heap[o] IN
              /\ g.roundNumber >= 1
              /\ g.roundNumber \in {Len(g.usedTopics), Len(g.usedTopics) + 1}
              /\ hist[o].restarted => g.roundNumber = 1)
    /\ [][\A o \in 1..Len(heap') :
              IF o \in 1..Len(heap)
              THEN \/ heap'[o].roundNumber = heap[o].roundNumber
                   \/ heap'[o].roundNumber = heap[o].roundNumber + 1
                   \/ hist'[o].restarted /\ heap'[o].roundNumber = 1
              ELSE heap'[o].roundNumber = 1]_vars

\* C27: every lobby in the registry has at least one participant.
NoEmptyLobby ==
    \A c \in DOMAIN lobbies : Len(lobbies[c].participants) >= 1

\* what belongs to one lobby: its registry entry, its round state with the
\* timer, and the participants whose eviction is pending
LobbyView(c) ==
    [lobby |-> IF c \in DOMAIN lobbies THEN <<lobbies[c]>> ELSE <<>>,
     round |-> IF c \in DOMAIN gameStates THEN <<heap[gameStates[c]]>> ELSE <<>>,
     evictions |-> {u \in DOMAIN disconnectedPlayers : disconnectedPlayers[u].code = c}]

\* C28: a message of a client or a callback of one lobby (every step but
\* the passing of time and the sweep of the reaper, which are global)
\* changes the roster, the round state, the timer and the pending evictions
\* of at most one lobby.
LobbiesIndependent ==
    [][reaper' = reaper =>
         Cardinality({c \in Codes : LobbyView(c)' # LobbyView(c)}) <= 1]_vars

\* C29: the phase that a game-phase-update announces is the phase stored
\* in the round state when it is emitted.
AnnouncedIsStored ==
    \A o \in 1..Len(hist) : hist[o].announced.phase = hist[o].announced.stored

\* the step is a restart-game that the handler accepted for object o
Restarted(o) ==
    /\ \E s \in sockets, c \in DOMAIN gameStates : gameStates[c] = o /\ RestartGame(s, c)
    /\ starts' = starts + 1

\* C30: a restart-game of the host leaves the round state with phase
\* voting, roundNumber 1, no votes, revotes, used topics or used speakers,
\* both tallies zero, no speaker and no position, score 0 for everybody in
\* the roster and no armed timer; and no timer is armed for it until
\* startVotingPhase has run.
RestartResets ==
    /\ [][\A o \in 1..Len(heap) :
              Restarted(o) =>
                  LET g == heap'[o] IN
                  /\ g.phase = "voting" /\ g.roundNumber = 1
                  /\ g.votes = EmptyMap /\ g.revotes = EmptyMap
                  /\ g.usedTopics = <<>> /\ g.usedSpeakers = <<>>
                  /\ g.initialVoteResults = ZeroTally /\ g.finalVoteResults = ZeroTally
                  /\ g.currentSpeaker = NoSpeaker /\ g.speakerPosition = ""
                  /\ \A c \in DOMAIN gameStates :
                         gameStates[c] = o =>
                             \A u \in Usernames(lobbies[c].participants) : g.scores[u] = 0
                  /\ ~Live(o)']_vars
    /\ [](\A o \in 1..Len(heap) : hist[o].restarted => ~Live(o))

\* C31: with timers and delayed callbacks firing fairly, a game that has
\* been started once and is neither restarted nor torn down eventually emits
\* game-ended, whatever the players vote, revote, drop and join.
GameEventuallyEnds ==
    (starts > 0) ~> (\E o \in 1..Len(hist) : hist[o].ended >= 1)

\* a game has ended after a scored round that the guest dropped out of and
\* a third person joined
EndedAfterPlay ==
    \E c \in DOMAIN gameStates \cap DOMAIN lobbies :
        LET o == gameStates[c] IN
        /\ hist[o].ended >= 1
        /\ hist[o].calc >= 1
        /\ Late \in DOMAIN heap[o].scores
        /\ Guest \notin ConnectedNames(lobbies[c].participants)

\* C32: an entry is written to votes only in the voting phase and to
\* revotes only in the revoting phase; a cast-vote outside the voting phase
\* and a cast-revote outside the revoting phase, or either without a round
\* state, leave votes, revotes, scores, phase and the timer as they were.
VotesOnlyInPhase ==
    [][/\ \A o \in 1..Len(heap) :
             /\ (heap'[o].votes # heap[o].votes /\ heap'[o].votes # EmptyMap) =>
                    heap[o].phase = "voting"
             /\ (heap'[o].revotes # heap[o].revotes /\ heap'[o].revotes # EmptyMap) =>
                    heap[o].phase = "revoting"
       /\ \A c \in Codes, u \in Users, v \in VoteValues :
             /\ (CastVote(c, u, v) /\ PhaseOf(c) # "voting") => UNCHANGED heap
             /\ (CastRevote(c, u, v) /\ PhaseOf(c) # "revoting") => UNCHANGED heap]_vars

\* the revoting phase of a round with votes and revotes recorded: a
\* cast-vote that arrives now is outside its phase
VoteOutsidePhase ==
    \E c \in DOMAIN gameStates :
        LET g == heap[gameStates[c]] IN
        /\ g.phase = "revoting"
        /\ Host \in DOMAIN g.votes
        /\ Host \in DOMAIN g.revotes

\* C33: whenever a lobby has a round state, every participant of its roster
\* has an integer entry in scores.
RosterHasScores ==
    \A c \in DOMAIN gameStates \cap DOMAIN lobbies :
        LET g == heap[gameStates[c]] IN
        /\ Usernames(lobbies[c].participants) \subseteq DOMAIN g.scores
        /\ \A u \in DOMAIN g.scores : g.scores[u] \in Int

\* the late joiner is in the roster of a scored round and has won or lost
\* points
LateJoinerScored ==
    \E c \in DOMAIN gameStates \cap DOMAIN lobbies :
        LET o == gameStates[c] IN
        /\ Late \in Usernames(lobbies[c].participants)
        /\ hist[o].calc >= 1
        /\ heap[o].scores[Late] # 0

====
